---------------------------- MODULE Spec2Model ----------------------------
(***************************************************************************)
(* A model of the tesseract.js worker script (src/unnamed/part_001): the   *)
(* job dispatcher `dispatchHandlers`, its ten handlers, and the module     *)
(* level state they share (TessModule, api, latestJob, params).            *)
(*                                                                         *)
(* JavaScript runs one handler at a time: a synchronous handler is one     *)
(* action; an asynchronous handler (load, loadLanguage) is one action per  *)
(* stretch of code between two awaits on a collaborator's promise.         *)
(* The collaborators (adapter, engine module, virtual filesystem, setImage)*)
(* are opaque: each of their calls returns or throws, chosen by \E.        *)
(***************************************************************************)
EXTENDS Integers, Sequences, FiniteSets, TLC

(***************************************************************************)
(* Bounds                                                                  *)
(***************************************************************************)
MaxJobs == 4        \* packets dispatched in one worker lifetime
MaxLangJobs == 1    \* loadLanguage packets among them
MaxLangAt == 2      \* the latest place of a loadLanguage packet among them
MaxOverlap == 0     \* packets dispatched while a loadLanguage job is running

(***************************************************************************)
(* JavaScript objects: an object is the sequence of its <<key, value>>     *)
(* entries in insertion order, keys distinct.  A key is a string, kept as  *)
(* the sequence of its segments so that startsWith can look at its start.  *)
(***************************************************************************)
RESERVED == "tessjs_"

startsWithAnywhere(k, prefix) == \E i \in 1..Len(k) : k[i] = prefix

\* String.prototype.startsWith
startsWith(k, prefix) == Len(k) > 0 /\ k[1] = prefix

Has(o, k) == \E i \in 1..Len(o) : o[i][1] = k

Get(o, k) == o[CHOOSE i \in 1..Len(o) : o[i][1] = k][2]

KeySet(o) == {o[i][1] : i \in 1..Len(o)}

\* o[k] = v: an existing key keeps its place, a new key goes last
Put(o, k, v) ==
  IF Has(o, k)
    THEN [i \in 1..Len(o) |-> IF o[i][1] = k THEN <<k, v>> ELSE o[i]]
    ELSE Append(o, <<k, v>>)

RECURSIVE SpreadReversed(_, _)
SpreadReversed(a, b) ==
  IF a = <<>> THEN b ELSE SpreadReversed(Tail(a), Put(b, Head(a)[1], Head(a)[2]))

\* the object literal {...a, ...b}
RECURSIVE Spread(_, _)
Spread(a, b) ==
  IF b = <<>> THEN a ELSE Spread(Put(a, Head(b)[1], Head(b)[2]), Tail(b))

ForwardedAll(_params) == _params

\* Object.keys(_params).filter((k) => !k.startsWith('tessjs_'))
Forwarded(_params) == SelectSeq(_params, LAMBDA kv : ~startsWith(kv[1], RESERVED))

\* ./constants/defaultParams: one engine variable and one wrapper-only option
defaultParamsInit ==
  << << <<"tessedit_", "pageseg_mode">>, "3" >>,
     << <<RESERVED, "create_hocr">>, "1" >> >>

(***************************************************************************)
(* Packets: {jobId, action, payload}.  jobId is given at dispatch.         *)
(***************************************************************************)
KA == <<"a">>
KB == <<"b">>
KX == <<RESERVED, "x">>
KM == <<"my_", RESERVED, "k">>
KPSM == <<"tessedit_", "pageseg_mode">>

ParamChoices ==
  { <<>>,
    << <<KX, "1">> >>,
    << <<KA, "1">> >>,
    << <<KB, "2">> >>,
    << <<KA, "2">>, <<KX, "1">>, <<KM, "1">> >>,
    << <<KX, "2">>, <<KPSM, "6">> >> }

Handlers ==
  {"load", "FS", "loadLanguage", "initialize", "setParameters", "recognize",
   "threshold", "getPDF", "detect", "terminate"}

\* callable properties an object literal inherits from Object.prototype
InheritedFunctions == {"toString", "constructor"}

\* inherited properties that are not callable
InheritedOther == {"__proto__"}

OtherActions == {"bogus"} \cup InheritedFunctions \cup InheritedOther

Packet(action, _params, cfg, rect) ==
  [action |-> action, cfg |-> cfg, rect |-> rect, params |-> _params]

\* payload of loadLanguage: langs is a string ("eng+osd", kind "string") or
\* an array (kind "array") of codes and of {code, data} pairs (inline);
\* cacheMethod "unset" is undefined; url: isURL(langPath) or an extension or
\* file scheme; dataPath: whether options.dataPath is given
Lang(code, inline) == [code |-> code, inline |-> inline]

LangValue(kind, items) == [kind |-> kind, items |-> items]

NoLangs == LangValue("", <<>>)

\* langs.split('+')
Split(langs) == LangValue("array", langs.items)

NoCfg == [langs |-> NoLangs, cacheMethod |-> "unset", url |-> TRUE,
          dataPath |-> FALSE]

Cfg(langs, cacheMethod, url, dataPath) ==
  [langs |-> langs, cacheMethod |-> cacheMethod, url |-> url, dataPath |-> dataPath]

\* "eng" with every cache method, langPath and dataPath; an inline pair with
\* every cache method and dataPath; "eng+osd" from the network and from disk
LangConfigs ==
  {Cfg(LangValue("string", <<Lang("eng", FALSE)>>), m, u, d) :
     m \in {"unset", "none", "refresh"}, u \in BOOLEAN, d \in BOOLEAN}
  \cup {Cfg(LangValue("string", <<Lang("eng", FALSE)>>), "write", u, FALSE) :
          u \in BOOLEAN}
  \cup {Cfg(LangValue("array", <<Lang("eng", TRUE)>>), m, TRUE, d) :
          m \in {"unset", "none", "refresh"}, d \in BOOLEAN}
  \cup {Cfg(LangValue("string", <<Lang("eng", FALSE), Lang("osd", FALSE)>>),
            "unset", TRUE, FALSE),
        Cfg(LangValue("string", <<Lang("eng", FALSE), Lang("osd", FALSE)>>),
            "none", FALSE, TRUE)}

Plain(action) == Packet(action, <<>>, NoCfg, FALSE)

(***************************************************************************)
(* State                                                                   *)
(***************************************************************************)
VARIABLES
  TessModule,   \* 0: undefined, else the module of the c-th Core(...) call
  api,          \* 0: null, else the id of a TessBaseAPI instance
  params,       \* the object `params` refers to: "defaultParams" or "merged"
  heap,         \* the contents of those two objects
  latestJob,    \* 0: undefined, else the jobId whose res it is
  isWebWorker,  \* getEnvironment('type') === 'webworker'
  ended,        \* engine: ended[i] is TRUE once End returned on instance i
  setVars,      \* engine: the variables set on instance `api` so far
  mem,          \* engine heap: the image buffers, who allocated, freed or not
  cores,        \* the promises returned by Core(...), with the load job of each
  ll,           \* the loadLanguage jobs in flight: their loadAndGunzipFile calls
  track,        \* host: the responses got so far, per job that can still get one
  out,          \* host: the envelopes passed to send() by the last step
  log,          \* the collaborator calls made by the last step
  since,        \* host: params of the setParameters jobs resolved since the
                \* last initialize packet
  nJobs,        \* packets dispatched so far (the next jobId is nJobs + 1)
  nLang,        \* loadLanguage packets dispatched so far
  last          \* host: the last step taken

vars ==
  <<TessModule, api, params, heap, latestJob, isWebWorker, ended, setVars, mem,
    cores, ll, track, out, log, since, nJobs, nLang, last>>

Retained == heap[params]

\* the step being taken, with the retained parameter set it started from
Step(op, j) == [op |-> op, job |-> j, before |-> Retained]

NoData == [langs |-> NoLangs, d |-> "", job |-> 0, p |-> "", obj |-> <<>>]

Data(d) == [NoData EXCEPT !.d = d]

Progress(d, p) == [NoData EXCEPT !.d = d, !.p = p]

Call(j, op, inst, was, r) ==
  [op |-> op, job |-> j, inst |-> inst, was |-> was, r |-> r, key |-> <<>>,
   val |-> "", ptr |-> 0]

\* a call of the adapter or of the virtual filesystem about a language file:
\* key is the path (<<directory, language>>), val the bytes handed over
FileCall(j, op, dir, code, val, r) ==
  [Call(j, op, 0, "", r) EXCEPT !.key = <<dir, code>>, !.val = val]

(***************************************************************************)
(* A synchronous stretch of handler code is a function on an effect        *)
(* record: the module state it may assign, the responses and collaborator  *)
(* calls it has made so far, and the error it has thrown ("" for none).    *)
(* A fault f names the collaborator call that throws in this run:          *)
(* f.at is the call, f.k the index of the throwing SetVariable call.       *)
(***************************************************************************)
Eff0 ==
  [params |-> params, api |-> api, heap |-> heap, ended |-> ended,
   setVars |-> setVars, mem |-> mem, cores |-> cores,
   out |-> <<>>, log |-> <<>>, thrown |-> ""]

Fault(at) == [k |-> 0, at |-> at, os |-> TRUE]

FaultSet(k) == [k |-> k, at |-> "SetVariable", os |-> TRUE]

FaultOS(at, os) == [k |-> 0, at |-> at, os |-> os]

\* res.resolve / res.reject / res.progress
Emit(e, status, data) ==
  [e EXCEPT !.out = Append(@, [status |-> status, data |-> data])]

Logc(e, c) == [e EXCEPT !.log = Append(@, c)]

Throw(e, err) == [e EXCEPT !.thrown = err]

\* catch (err) { res.reject(err.toString()); }
Catch(e) ==
  IF e.thrown = "" THEN e
  ELSE Emit([e EXCEPT !.thrown = ""], "reject", Data(e.thrown))

Was(e) == IF e.api = 0 THEN "" ELSE IF e.ended[e.api] THEN "ended" ELSE "live"

OnApi(e, j, op, r) == Call(j, op, e.api, Was(e), r)

\* a method call on api that either returns or throws
ApiCall(e, j, op, f) ==
  IF e.thrown # "" THEN e
  ELSE IF e.api = 0 THEN Throw(e, "TypeError")
  ELSE IF f.at = op THEN Throw(Logc(e, OnApi(e, j, op, "throw")), "Error: " \o op)
  ELSE Logc(e, OnApi(e, j, op, "ok"))

\* a statement that runs only if nothing was thrown before it
EmitOk(e, status, data) == IF e.thrown # "" THEN e ELSE Emit(e, status, data)

\* api.End()
ApiEnd(e, j, f) ==
  LET e1 == ApiCall(e, j, "End", f)
  IN IF e1.thrown # "" THEN e1 ELSE [e1 EXCEPT !.ended[e.api] = TRUE]

\* the forEach of setParameters: api.SetVariable(key, _params[key]) per key
RECURSIVE SetVariables(_, _, _, _)
SetVariables(e, j, fk, k) ==
  IF fk = <<>> \/ e.thrown # "" THEN e
  ELSE IF e.api = 0 THEN Throw(e, "TypeError")
  ELSE LET kv == Head(fk)
           c == [OnApi(e, j, "SetVariable", IF k = 1 THEN "throw" ELSE "ok")
                   EXCEPT !.key = kv[1], !.val = kv[2]]
           e1 == Logc(e, c)
       IN IF k = 1 THEN Throw(e1, "Error: SetVariable")
          ELSE SetVariables([e1 EXCEPT !.setVars = Put(@, kv[1], kv[2])],
                            j, Tail(fk), k - 1)

setParametersInPlace(e, j, _params, f, hasRes) ==
  LET e1 == SetVariables(e, j, Forwarded(_params), f.k)
      merged == Spread(e1.heap[e1.params], _params)
      e2 == [e1 EXCEPT !.heap = [@ EXCEPT ![e1.params] = merged]]
  IN IF e1.thrown # "" THEN e1
     ELSE IF hasRes
       THEN Emit(e2, "resolve", [NoData EXCEPT !.d = "params", !.obj = merged])
       ELSE e2

setParameters(e, j, _params, f, hasRes) ==
  LET e1 == SetVariables(e, j, Forwarded(_params), f.k)
      merged == Spread(e1.heap[e1.params], _params)
      e2 == [e1 EXCEPT !.heap = [@ EXCEPT !["merged"] = merged],
                       !.params = "merged"]
  IN IF e1.thrown # "" THEN e1
     ELSE IF hasRes
       THEN Emit(e2, "resolve", [NoData EXCEPT !.d = "params", !.obj = merged])
       ELSE e2

EndExistingSkipped(e, j, f) == e

\* if (api !== null) { api.End(); }
EndExisting(e, j, f) == IF e.api = 0 THEN e ELSE ApiEnd(e, j, f)

\* api = new TessModule.TessBaseAPI();
NewApi(e, j, f) ==
  IF e.thrown # "" THEN e
  ELSE IF TessModule = 0 THEN Throw(e, "TypeError")
  ELSE IF f.at = "new" THEN Throw(Logc(e, Call(j, "new", 0, "", "throw")), "Error: new")
  ELSE LET i == Len(e.ended) + 1
       IN [Logc(e, Call(j, "new", i, "live", "ok"))
             EXCEPT !.api = i, !.ended = Append(@, FALSE), !.setVars = <<>>]

ReplaceNewFirst(e, j, f) ==
  LET e1 == NewApi(e, j, f)
  IN IF e.api = 0 \/ e1.thrown # "" THEN e1
     ELSE LET e2 == ApiCall([e1 EXCEPT !.api = e.api], j, "End", f)
          IN IF e2.thrown # "" THEN [e2 EXCEPT !.api = e1.api]
             ELSE [e2 EXCEPT !.api = e1.api, !.ended[e.api] = TRUE]

\* if (api !== null) { api.End(); } api = new TessModule.TessBaseAPI();
Replace(e, j, f) == NewApi(EndExisting(e, j, f), j, f)

ResetParamsSkipped(e) == e

\* params = defaultParams;
ResetParams(e) == [e EXCEPT !.params = "defaultParams"]

initialize(e, j, f) ==
  LET e1 == Emit(e, "progress", Progress("initializing api", "0"))
      e2 == Replace(e1, j, f)
      e3 == ApiCall(e2, j, "Init", f)
      e4 == IF e3.thrown # "" THEN e3
            ELSE LET r == ResetParams(e3)
                 IN setParameters(r, j, r.heap[r.params], f, FALSE)
      e5 == IF e4.thrown # "" THEN e4
            ELSE Emit(Emit(e4, "progress", Progress("initialized api", "1")),
                      "resolve", NoData)
  IN Catch(e5)

\* ./utils/setImage: copies the image into a buffer it allocates, hands the
\* buffer to api.SetImage and returns the pointer
setImage(e, j, f) ==
  IF TessModule = 0 \/ e.api = 0 THEN Throw(e, "TypeError")
  ELSE IF f.at = "setImage"
    THEN Throw(Logc(e, OnApi(e, j, "setImage", "throw")), "Error: setImage")
  ELSE [Logc(e, [OnApi(e, j, "setImage", "ok") EXCEPT !.ptr = Len(e.mem) + 1])
          EXCEPT !.mem = Append(@, [job |-> j, freed |-> FALSE])]

\* TessModule._free(ptr)
free(e, j, ptr, f) ==
  IF e.thrown # "" THEN e
  ELSE IF f.at = "_free"
    THEN Throw(Logc(e, [Call(j, "_free", 0, "", "throw") EXCEPT !.ptr = ptr]),
               "Error: _free")
  ELSE [Logc(e, [Call(j, "_free", 0, "", "ok") EXCEPT !.ptr = ptr])
          EXCEPT !.mem[ptr].freed = TRUE]

\* the data of latestJob.progress({workerId, jobId, status, progress}), with
\* the jobId of the load job that gave the callback to the c-th Core(...) call
ProgressData(c) ==
  [NoData EXCEPT !.d = "recognizing text", !.job = cores[c].job]

\* TesseractProgress(percent) { latestJob.progress({...}) }: the engine calls
\* it from inside Recognize, when latestJob is the res of the job running
TesseractProgress(e, c) == EmitOk(e, "progress", ProgressData(c))

recognize(e, j, rect, f) ==
  LET e1 == setImage(e, j, f)
      ptr == Len(e1.mem)
      e2 == ApiCall(e1, j, "GetThresholdedImage", f)
      e3 == IF rect THEN ApiCall(e2, j, "SetRectangle", f) ELSE e2
      e4 == ApiCall(e3, j, "Recognize", f)
      e5 == IF f.at = "progress" THEN TesseractProgress(e4, TessModule) ELSE e4
      e6 == EmitOk(e5, "resolve", Data("result"))
  IN Catch(free(e6, j, ptr, f))

threshold(e, j, f) ==
  LET e1 == setImage(e, j, f)
      ptr == Len(e1.mem)
      e2 == ApiCall(e1, j, "GetThresholdedImage", f)
      e3 == free(e2, j, ptr, f)
  IN Catch(EmitOk(e3, "resolve", Data("png")))

getPDF(e, j, f) ==
  IF TessModule = 0 THEN Throw(e, "TypeError")
  ELSE IF f.at = "AddImage"
    THEN Throw(Logc(e, OnApi(e, j, "AddImage", "throw")), "Error: AddImage")
  ELSE Emit(Logc(e, OnApi(e, j, "AddImage", "ok")), "resolve", Data("pdf"))

DetectFailedNoFree(e, j, ptr, f) ==
  EmitOk(ApiEnd(e, j, f), "reject", Data("Failed to detect OS"))

\* api.End(); TessModule._free(ptr); res.reject('Failed to detect OS');
DetectFailed(e, j, ptr, f) ==
  EmitOk(free(ApiEnd(e, j, f), j, ptr, f), "reject", Data("Failed to detect OS"))

detect(e, j, f) ==
  LET e1 == setImage(e, j, f)
      ptr == Len(e1.mem)
      e2 == IF e1.thrown # "" \/ f.at = "DetectOS" THEN ApiCall(e1, j, "DetectOS", f)
            ELSE Logc(e1, OnApi(e1, j, "DetectOS", IF f.os THEN "true" ELSE "false"))
      e3 == IF e2.thrown # "" THEN e2
            ELSE IF ~f.os
              THEN DetectFailed(e2, j, ptr, f)
              ELSE EmitOk(free(e2, j, ptr, f), "resolve", Data("os"))
  IN Catch(e3)

terminateUnguarded(e, j, f) ==
  Catch(EmitOk(ApiEnd(e, j, f), "resolve", Data("terminated")))

terminate(e, j, f) ==
  Catch(EmitOk(EndExisting(e, j, f), "resolve", Data("terminated")))

FS(e, j, f) ==
  IF TessModule = 0 THEN Throw(e, "TypeError")
  ELSE IF f.at = "FS"
    THEN Throw(Logc(e, Call(j, "FS", 0, "", "throw")), "Error: FS")
  ELSE Emit(Logc(e, Call(j, "FS", 0, "", "ok")), "resolve", Data("fs"))

load(e, j, f) ==
  IF TessModule # 0 THEN Emit(e, "resolve", Data("loaded"))
  ELSE IF f.at = "getCore"
    THEN Throw(Logc(e, Call(j, "getCore", 0, "", "throw")), "Error: getCore")
  ELSE [Logc(Emit(Logc(e, Call(j, "getCore", 0, "", "ok")),
                  "progress", Progress("initializing tesseract", "0")),
             Call(j, "Core", 0, "", "ok"))
          EXCEPT !.cores = Append(@, [job |-> j, state |-> "pending"])]

(***************************************************************************)
(* The host side of send(): every envelope is {...packet, status, data},   *)
(* so a response sent through the res of job k carries k's jobId and       *)
(* action.  track keeps the responses of the jobs that can still get one   *)
(* (the latest job and the jobs with code still to run) and of the jobs    *)
(* that finished in the last step.                                         *)
(***************************************************************************)
\* a mis-routing of the engine's progress callback: through the res of the
\* load job that gave the callback to Core(...)
SenderOfLoad(tr, k, r) ==
  IF r.data.d = "recognizing text"
    THEN [action |-> "load", jobId |-> r.data.job]
    ELSE [action |-> tr[k].action, jobId |-> k]

\* the packet a response r made while the code of job k runs is spread from:
\* the handler's own responses go through its res, the closure over the
\* packet of k, and the response of TesseractProgress goes through latestJob,
\* which dispatchHandlers set to that same res before it called the handler
Sender(tr, k, r) == [action |-> tr[k].action, jobId |-> k]

Envelope(tr, k, r) ==
  [action |-> Sender(tr, k, r).action, status |-> r.status, data |-> r.data,
   jobId |-> Sender(tr, k, r).jobId]

\* the responses r (a sequence) sent through the res of job k
Through(tr, k, r) == [tr EXCEPT ![k].sent = @ \o r]

Envelopes(tr, k, r) == [i \in 1..Len(r) |-> Envelope(tr, k, r[i])]

Keep(tr, latest) ==
  LET keep == {k \in DOMAIN tr :
                 \/ k = latest
                 \/ ~tr[k].done
                 \/ ~(k \in DOMAIN track /\ track[k].done)}
  IN [k \in keep |-> tr[k]]

Opened(j, packet) ==
  [k \in DOMAIN track \cup {j} |->
     IF k = j THEN [action |-> packet.action, sent |-> <<>>, done |-> FALSE,
                    packet |-> packet]
     ELSE track[k]]

\* ({load, FS, ...})[packet.action]
Lookup(action) ==
  IF action \in Handlers THEN "handler"
  ELSE IF action \in InheritedFunctions THEN "inherited"
  ELSE IF action \in InheritedOther THEN "notCallable"
  ELSE "undefined"

\* the synchronous handlers: ({...})[packet.action](packet, res)
Invoke(e, j, packet, f) ==
  CASE packet.action = "load" -> load(e, j, f)
    [] packet.action = "FS" -> FS(e, j, f)
    [] packet.action = "initialize" -> initialize(e, j, f)
    [] packet.action = "setParameters" -> setParameters(e, j, packet.params, f, TRUE)
    [] packet.action = "recognize" -> recognize(e, j, packet.rect, f)
    [] packet.action = "threshold" -> threshold(e, j, f)
    [] packet.action = "getPDF" -> getPDF(e, j, f)
    [] packet.action = "detect" -> detect(e, j, f)
    [] packet.action = "terminate" -> terminate(e, j, f)
    [] Lookup(packet.action) = "inherited" -> e
    [] OTHER -> Throw(e, "TypeError")

\* the faults that can happen in the handler of a packet
Faults(packet) ==
  CASE packet.action = "load" -> {Fault("none"), Fault("getCore")}
    [] packet.action = "FS" -> {Fault("none"), Fault("FS")}
    [] packet.action = "initialize" ->
         {Fault("none"), Fault("End"), Fault("new"), Fault("Init")}
           \cup {FaultSet(k) : k \in 1..Len(Forwarded(heap["defaultParams"]))}
    [] packet.action = "setParameters" ->
         {Fault("none")} \cup {FaultSet(k) : k \in 1..Len(Forwarded(packet.params))}
    [] packet.action = "recognize" ->
         {Fault("none"), Fault("setImage"), Fault("GetThresholdedImage"),
          Fault("Recognize"), Fault("progress"), Fault("_free")}
           \cup (IF packet.rect THEN {Fault("SetRectangle")} ELSE {})
    [] packet.action = "threshold" ->
         {Fault("none"), Fault("setImage"), Fault("GetThresholdedImage"),
          Fault("_free")}
    [] packet.action = "getPDF" -> {Fault("none"), Fault("AddImage")}
    [] packet.action = "detect" ->
         {FaultOS(at, os) : at \in {"none", "setImage", "End", "_free"},
                            os \in BOOLEAN} \cup {Fault("DetectOS")}
    [] packet.action = "terminate" -> {Fault("none"), Fault("End")}
    [] OTHER -> {Fault("none")}

\* what the host has seen resolved since the last initialize packet
Since(packet, e) ==
  IF packet.action = "initialize" THEN <<>>
  ELSE IF packet.action = "setParameters"
          /\ \E i \in 1..Len(e.out) : e.out[i].status = "resolve"
    THEN Append(since, packet.params)
  ELSE since

\* a job whose handler has returned and left no promise behind
Returned(packet, e) ==
  ~(packet.action = "load" /\ Len(e.cores) > Len(cores))

\* exports.dispatchHandlers = (packet, send) => { ... }, for the packets
\* whose handler is synchronous
dispatchHandlers(packet) ==
  /\ nJobs < MaxJobs
  /\ \A k \in DOMAIN ll : nJobs - k < MaxOverlap
  /\ packet.action # "loadLanguage"
  /\ \E f \in Faults(packet) :
     \E e \in {Catch(Invoke(Eff0, nJobs + 1, packet, f))} :
       LET j == nJobs + 1
           tr == [Opened(j, packet) EXCEPT ![j].done = Returned(packet, e)]
       IN /\ nJobs' = j
          /\ latestJob' = j
          /\ api' = e.api
          /\ ended' = e.ended
          /\ setVars' = e.setVars
          /\ heap' = e.heap
          /\ params' = e.params
          /\ mem' = e.mem
          /\ cores' = e.cores
          /\ log' = e.log
          /\ out' = Envelopes(tr, j, e.out)
          /\ track' = Keep(Through(tr, j, e.out), j)
          /\ since' = Since(packet, e)
          /\ last' = Step("dispatch", j)
          /\ UNCHANGED <<TessModule, isWebWorker, ll, nLang>>

\* Core({...}).then((tessModule) => { ... }): the promise of the c-th
\* Core(...) call is fulfilled, or is rejected (there is no rejection handler)
CoreSettle(c, fulfilled) ==
  /\ c \in 1..Len(cores)
  /\ cores[c].state = "pending"
  /\ LET j == cores[c].job
         r == IF fulfilled
                THEN << [status |-> "progress",
                         data |-> Progress("initialized tesseract", "1")],
                        [status |-> "resolve", data |-> Data("loaded")] >>
                ELSE <<>>
         tr == [track EXCEPT ![j].done = TRUE]
     IN /\ cores' = [cores EXCEPT ![c].state =
                       IF fulfilled THEN "fulfilled" ELSE "rejected"]
        /\ TessModule' = IF fulfilled THEN c ELSE TessModule
        /\ out' = Envelopes(tr, j, r)
        /\ track' = Keep(Through(tr, j, r), latestJob)
        /\ log' = <<>>
        /\ last' = Step("CoreSettle", j)
        /\ UNCHANGED <<api, params, heap, latestJob, isWebWorker, ended, setVars,
                       mem, ll, since, nJobs, nLang>>

(***************************************************************************)
(* loadLanguage.  Each language of the list runs loadAndGunzipFile, a      *)
(* coroutine that stops at every await on a promise of the adapter:        *)
(*   "cache"   await readCache(cachePath/lang)   (adapter.readCache)       *)
(*   "fetch"   await fetch(path/lang.gz)                                   *)
(*   "buf"     await resp.arrayBuffer()                                    *)
(*   "path"    await adapter.readCache(langPath/lang.gz)                   *)
(*   "wcache"  await adapter.writeCache(cachePath/lang, data)              *)
(* and ends "ok" (fulfilled) or "fail" (rejected).  An await on the stub   *)
(* () => Promise.resolve() resumes in the same turn, before any other      *)
(* message or promise of a collaborator, so it does not end the step.      *)
(***************************************************************************)
DOMEXCEPTION == "DOMException"

Bytes(src) == [src |-> src, gz |-> src \in {"net", "path"}]

\* lines 112-134: after the bytes are got
Post(x, j, cfg, code, bytes, f) ==
  LET x1 == IF ~bytes.gz THEN x
            ELSE IF f.at = "gunzip"
              THEN Throw(Logc(x, FileCall(j, "gunzip", "", code, bytes.src, "throw")),
                         "Error: gunzip")
            ELSE Logc(x, FileCall(j, "gunzip", "", code, bytes.src, "ok"))
      dir == IF cfg.dataPath THEN "dataPath" ELSE "."
      x2 == IF ~(TessModule # 0 /\ cfg.dataPath) \/ x1.thrown # "" THEN x1
            ELSE IF f.at = "mkdir"
              THEN Emit(Logc(x1, FileCall(j, "mkdir", dir, "", "", "throw")),
                        "reject", Data("Error: mkdir"))
            ELSE Logc(x1, FileCall(j, "mkdir", dir, "", "", "ok"))
      x3 == IF TessModule = 0 \/ x2.thrown # "" THEN x2
            ELSE IF f.at = "writeFile"
              THEN Throw(Logc(x2, FileCall(j, "writeFile", dir, code, bytes.src, "throw")),
                         "Error: writeFile")
            ELSE Logc(x2, FileCall(j, "writeFile", dir, code, bytes.src, "ok"))
      x4 == IF x3.thrown # "" THEN x3
            ELSE IF cfg.cacheMethod \in {"write", "refresh", "unset"}
              THEN [Logc(x3, FileCall(j, "writeCache", "cachePath", code, bytes.src, "ok"))
                      EXCEPT !.pc = "wcache"]
            ELSE [x3 EXCEPT !.pc = "ok"]
  IN IF x4.thrown # "" THEN [x4 EXCEPT !.pc = "fail"] ELSE x4

\* lines 92-110: the catch after the cache gave nothing
Source(x, j, cfg, lang, f) ==
  IF lang.inline THEN Post(x, j, cfg, lang.code, Bytes("inline"), f)
  ELSE IF cfg.url
    THEN [Logc(x, FileCall(j, "fetch", "langPath", lang.code,
                           IF isWebWorker THEN "fetch" ELSE "adapter.fetch", "ok"))
            EXCEPT !.pc = "fetch"]
  ELSE [Logc(x, FileCall(j, "readCache", "langPath", lang.code, "", "ok"))
          EXCEPT !.pc = "path"]

StartFromSource(x, j, cfg, lang, f) == Source(x, j, cfg, lang, f)

\* lines 77-84: up to the first await
Start(x, j, cfg, lang, f) ==
  IF cfg.cacheMethod \in {"refresh", "none"} THEN Source(x, j, cfg, lang, f)
  ELSE [Logc(x, FileCall(j, "readCache", "cachePath", lang.code, "", "ok"))
          EXCEPT !.pc = "cache"]

\* a coroutine resumed at its await with the outcome of the promise:
\* "value", "undefined", or the error it was rejected with
Resume(x, j, cfg, lang, outcome, f) ==
  LET rejected == outcome \notin {"value", "undefined"}
  IN CASE x.pc = "cache" ->
            IF outcome = "value"
              THEN Post(Emit(x, "progress",
                             Progress("loading language traineddata (from cache)", "0.5")),
                        j, cfg, lang.code, Bytes("cache"), f)
              ELSE Source(x, j, cfg, lang, f)
       [] x.pc = "fetch" ->
            IF rejected THEN [Throw(x, outcome) EXCEPT !.pc = "fail"]
            ELSE [Logc(x, FileCall(j, "arrayBuffer", "langPath", lang.code, "", "ok"))
                    EXCEPT !.pc = "buf"]
       [] x.pc = "buf" ->
            IF rejected THEN [Throw(x, outcome) EXCEPT !.pc = "fail"]
            ELSE Post(x, j, cfg, lang.code, Bytes("net"), f)
       [] x.pc = "path" ->
            IF rejected THEN [Throw(x, outcome) EXCEPT !.pc = "fail"]
            ELSE Post(x, j, cfg, lang.code,
                      Bytes(IF outcome = "value" THEN "path" ELSE "empty"), f)
       [] x.pc = "wcache" ->
            IF rejected THEN [Throw(x, outcome) EXCEPT !.pc = "fail"]
            ELSE [x EXCEPT !.pc = "ok"]
       [] OTHER -> x

Outcomes(pc) ==
  CASE pc = "cache" -> {"value", "undefined", "Error: readCache"}
    [] pc = "fetch" ->
         {"value", "Error: fetch"} \cup (IF isWebWorker THEN {DOMEXCEPTION} ELSE {})
    [] pc = "buf" -> {"value", "Error: arrayBuffer"}
    [] pc = "path" -> {"value", "undefined", "Error: readCache"}
    [] pc = "wcache" ->
         {"value", "Error: writeCache"} \cup (IF isWebWorker THEN {DOMEXCEPTION} ELSE {})
    [] OTHER -> {}

PostFaults == {Fault("none"), Fault("gunzip"), Fault("mkdir"), Fault("writeFile")}

\* lines 138-152: what follows await Promise.all(...) once coroutine i has
\* run a stretch that ended as x
PromiseAll(job, i, x, langs) ==
  LET co == [job.co EXCEPT ![i] = x.pc]
      j1 == [job EXCEPT !.co = co, !.out = x.out, !.log = x.log]
  IN IF job.settled THEN j1
     ELSE IF x.pc = "fail"
       THEN IF isWebWorker /\ x.thrown = DOMEXCEPTION
              THEN [j1 EXCEPT !.settled = TRUE]
              ELSE [j1 EXCEPT !.settled = TRUE,
                              !.out = Append(@, [status |-> "reject",
                                                 data |-> Data(x.thrown)])]
     ELSE IF \A k \in 1..Len(co) : co[k] = "ok"
       THEN [j1 EXCEPT !.settled = TRUE,
                       !.out = @ \o
                         << [status |-> "progress",
                             data |-> Progress("loaded language traineddata", "1")],
                            [status |-> "resolve",
                             data |-> [NoData EXCEPT !.d = "langs", !.langs = langs]] >>]
     ELSE j1

CoState(job, i) == [out |-> job.out, log |-> job.log, thrown |-> "", pc |-> job.co[i]]

\* (... ).map(loadAndGunzipFile): the coroutines are started in order
RECURSIVE StartAll(_, _, _, _, _)
StartAll(job, j, cfg, i, f) ==
  IF i > Len(cfg.langs.items) THEN job
  ELSE StartAll(PromiseAll(job, i, Start(CoState(job, i), j, cfg, cfg.langs.items[i], f),
                           cfg.langs),
                j, cfg, i + 1, f)

Finished(job) == \A k \in 1..Len(job.co) : job.co[k] \in {"ok", "fail"}

Running(job) == [cfg |-> job.cfg, co |-> job.co, settled |-> job.settled]

\* the loadLanguage jobs still running, with job j as it is after a step
Jobs(j, job) ==
  LET dom == (DOMAIN ll \ {j}) \cup (IF Finished(job) THEN {} ELSE {j})
  IN [k \in dom |-> IF k = j THEN Running(job) ELSE ll[k]]

\* dispatchHandlers for a loadLanguage packet: the handler up to its awaits
loadLanguage(packet) ==
  /\ nJobs < MaxJobs
  /\ nLang < MaxLangJobs
  /\ nJobs < MaxLangAt
  /\ \A k \in DOMAIN ll : nJobs - k < MaxOverlap
  /\ packet.action = "loadLanguage"
  /\ \E f \in PostFaults :
     \E job \in {StartAll([cfg |-> packet.cfg,
                           out |-> << [status |-> "progress",
                                       data |-> Progress("loading language traineddata", "0")] >>,
                           log |-> <<>>,
                           co |-> [i \in 1..Len(packet.cfg.langs.items) |-> "start"],
                           settled |-> FALSE],
                          nJobs + 1, packet.cfg, 1, f)} :
       LET j == nJobs + 1
           tr == [Opened(j, packet) EXCEPT ![j].done = Finished(job)]
       IN /\ nJobs' = j
          /\ nLang' = nLang + 1
          /\ latestJob' = j
          /\ ll' = Jobs(j, job)
          /\ log' = job.log
          /\ out' = Envelopes(tr, j, job.out)
          /\ track' = Keep(Through(tr, j, job.out), j)
          /\ last' = Step("dispatch", j)
          /\ UNCHANGED <<TessModule, api, params, heap, isWebWorker, ended,
                         setVars, mem, cores, since>>

\* a promise awaited by coroutine i of loadLanguage job j settles
LangStep(j, i) ==
  /\ j \in DOMAIN ll
  /\ i \in 1..Len(ll[j].co)
  /\ \E outcome \in Outcomes(ll[j].co[i]), f \in PostFaults :
     \E job \in {PromiseAll([cfg |-> ll[j].cfg, out |-> <<>>, log |-> <<>>, co |-> ll[j].co,
                             settled |-> ll[j].settled],
                            i,
                            Resume([out |-> <<>>, log |-> <<>>, thrown |-> "",
                                    pc |-> ll[j].co[i]],
                                   j, ll[j].cfg, ll[j].cfg.langs.items[i], outcome, f),
                            ll[j].cfg.langs)} :
       LET tr == [track EXCEPT ![j].done = Finished(job)]
       IN /\ ll' = Jobs(j, job)
          /\ log' = job.log
          /\ out' = Envelopes(tr, j, job.out)
          /\ track' = Keep(Through(tr, j, job.out), latestJob)
          /\ last' = Step("LangStep", j)
          /\ UNCHANGED <<TessModule, api, params, heap, latestJob, isWebWorker,
                         ended, setVars, mem, cores, since, nJobs, nLang>>

Init ==
  /\ TessModule = 0
  /\ api = 0
  /\ params = "defaultParams"
  /\ heap = [merged |-> <<>>, defaultParams |-> defaultParamsInit]
  /\ latestJob = 0
  /\ isWebWorker \in BOOLEAN
  /\ ended = <<>>
  /\ setVars = <<>>
  /\ mem = <<>>
  /\ cores = <<>>
  /\ ll = <<>>
  /\ track = <<>>
  /\ out = <<>>
  /\ log = <<>>
  /\ since = <<>>
  /\ nJobs = 0
  /\ nLang = 0
  /\ last = [op |-> "init", job |-> 0, before |-> <<>>]

Next ==
  \/ dispatchHandlers(Plain("load"))
  \/ dispatchHandlers(Plain("FS"))
  \/ dispatchHandlers(Plain("initialize"))
  \/ \E p \in ParamChoices :
       dispatchHandlers(Packet("setParameters", p, NoCfg, FALSE))
  \/ \E rect \in BOOLEAN : dispatchHandlers(Packet("recognize", <<>>, NoCfg, rect))
  \/ dispatchHandlers(Plain("threshold"))
  \/ dispatchHandlers(Plain("getPDF"))
  \/ dispatchHandlers(Plain("detect"))
  \/ dispatchHandlers(Plain("terminate"))
  \/ \E a \in OtherActions : dispatchHandlers(Plain(a))
  \/ \E cfg \in LangConfigs : loadLanguage(Packet("loadLanguage", <<>>, cfg, FALSE))
  \/ \E j \in DOMAIN ll, i \in 1..2 : LangStep(j, i)
  \/ \E c \in 1..Len(cores), fulfilled \in BOOLEAN : CoreSettle(c, fulfilled)

Spec == Init /\ [][Next]_vars

(***************************************************************************)
(* Properties                                                              *)
(***************************************************************************)
Count(s, status) == Cardinality({i \in 1..Len(s) : s[i].status = status})

Terminals(s) == Count(s, "resolve") + Count(s, "reject")

Rejects(s) == {s[i].data.d : i \in {i \in 1..Len(s) : s[i].status = "reject"}}

\* the job of the last step is the packet just dispatched, with this action
JustDispatched(action) ==
  /\ last.op = "dispatch"
  /\ latestJob # 0
  /\ track[latestJob].action = action

Resolved(k) == Count(track[k].sent, "resolve") > 0

\* the calls of the last step that satisfy test, by their place in the log
Calls(op) == {p \in 1..Len(log) : log[p].op = op}

SameMap(a, b) ==
  /\ KeySet(a) = KeySet(b)
  /\ \A k \in KeySet(a) : Get(a, k) = Get(b, k)

\* C1: the responses sent for a packet are zero or more progress responses
\* followed by at most one terminal response (resolve or reject): every
\* response but the last one is a progress.
C1_ProgressThenOneTerminal ==
  \A k \in DOMAIN track :
    \A i \in 1..(Len(track[k].sent) - 1) : track[k].sent[i].status = "progress"

\* C2: every packet of a supported action whose handler has run to its end
\* (its promises settled) has received a terminal response: a failure ends
\* in a reject and is never left without a response.
C2_FinishedJobHasTerminal ==
  \A k \in DOMAIN track :
    (track[k].action \in Handlers /\ track[k].done) => Terminals(track[k].sent) > 0

\* C3: a packet whose action is not one of the ten supported actions gets
\* exactly one reject and no resolve, also when the name is an inherited
\* property of the handler lookup object, and the retained parameter set is
\* left as it was.
C3_UnknownActionRejectsOnce ==
  \A k \in DOMAIN track :
    track[k].action \notin Handlers =>
      /\ Count(track[k].sent, "reject") = 1
      /\ Count(track[k].sent, "resolve") = 0
      /\ (last.op = "dispatch" /\ last.job = k) => Retained = last.before

\* C4: the core factory (adapter.getCore then Core(...)) is invoked by at most
\* one load job of a worker lifetime, also when loads overlap.
C4_CoreCreatedAtMostOnce == Len(cores) <= 1

Live == {i \in 1..Len(ended) : ~ended[i]}

\* C5: in every reachable state at most one API instance has been created
\* and not yet ended.
C5_AtMostOneLiveInstance == Cardinality(Live) <= 1

\* C5 witness: a second initialize, whose Init threw, has replaced the first
\* instance: the first is ended, the second is the only live one.
C5_Witness ==
  /\ JustDispatched("initialize")
  /\ Len(ended) = 2 /\ Live = {2} /\ api = 2
  /\ \E p \in Calls("Init") : log[p].r = "throw"

\* C6: when initialize runs while an API instance exists, End is called on
\* that instance right before the new TessBaseAPI is created, and Init is
\* called on the new instance right after its creation: for two successive
\* initialize jobs the engine sees create1, Init1, End1, create2, Init2.
C6_EndBeforeCreate ==
  /\ \A p \in Calls("new") :
       LET existing == IF log[p].r = "ok" THEN log[p].inst - 1 ELSE Len(ended)
       IN existing > 0 =>
            /\ p > 1
            /\ log[p - 1].op = "End" /\ log[p - 1].inst = existing
            /\ log[p - 1].r = "ok"
  /\ \A p \in Calls("Init") :
       /\ p > 1
       /\ log[p - 1].op = "new" /\ log[p - 1].inst = log[p].inst
       /\ \A q \in Calls("End") : q < p

\* C6 witness: the second of two initialize jobs: End on instance 1, then
\* instance 2 is created, then Init on instance 2.
C6_Witness ==
  /\ JustDispatched("initialize")
  /\ \E p \in Calls("End") :
       /\ log[p].inst = 1 /\ log[p].was = "live"
       /\ Len(log) >= p + 2
       /\ log[p + 1].op = "new" /\ log[p + 1].inst = 2
       /\ log[p + 2].op = "Init" /\ log[p + 2].inst = 2 /\ log[p + 2].r = "ok"

\* C7: after an initialize job that resolves, the retained parameter set is
\* the fixed default set exactly, every default key without the reserved
\* prefix has been pushed to the new instance, and the default set itself is
\* never altered.
C7_InitializeResetsToDefaults ==
  /\ heap["defaultParams"] = defaultParamsInit
  /\ (latestJob # 0 /\ track[latestJob].action = "initialize" /\ Resolved(latestJob)) =>
       /\ Retained = defaultParamsInit
       /\ \A i \in 1..Len(defaultParamsInit) :
            ~startsWith(defaultParamsInit[i][1], RESERVED) =>
              /\ Has(setVars, defaultParamsInit[i][1])
              /\ Get(setVars, defaultParamsInit[i][1]) = defaultParamsInit[i][2]

\* C7 witness: an initialize job has resolved from a retained set that
\* earlier setParameters jobs had changed.
C7_Witness ==
  /\ JustDispatched("initialize") /\ Resolved(latestJob)
  /\ ~SameMap(last.before, defaultParamsInit)
  /\ Calls("SetVariable") # {}

\* the jobs of since (by their place) that supplied key k
Suppliers(k) == {i \in 1..Len(since) : Has(since[i], k)}

\* the value key k has after the jobs of since have overridden the defaults
\* in dispatch order
LastWrite(k) ==
  IF Suppliers(k) = {}
    THEN Get(defaultParamsInit, k)
    ELSE Get(since[CHOOSE i \in Suppliers(k) : \A m \in Suppliers(k) : m <= i], k)

\* C8: with a live API instance, the retained parameter set is the default
\* set overridden key by key by the params of the setParameters jobs that
\* resolved since the last initialize, in dispatch order (last write wins, no
\* key removed), and a setParameters resolve carries that set.
C8_DefaultsOverriddenInOrder ==
  (api # 0 /\ ~ended[api]) =>
    /\ KeySet(Retained) =
         KeySet(defaultParamsInit) \cup UNION {KeySet(since[i]) : i \in 1..Len(since)}
    /\ \A k \in KeySet(Retained) : Get(Retained, k) = LastWrite(k)
    /\ (JustDispatched("setParameters") /\ Resolved(latestJob)) =>
         \A i \in 1..Len(out) :
           out[i].status = "resolve" => SameMap(out[i].data.obj, Retained)

\* the mapping a setParameters job or an initialize job hands to
\* setParameters: the packet's params, or the default set
Supplied ==
  IF track[latestJob].action = "initialize"
    THEN defaultParamsInit
    ELSE track[latestJob].packet.params

\* the SetVariable calls of the last step that were given key k
Passed(k) == {p \in Calls("SetVariable") : log[p].key = k}

SetsParameters == JustDispatched("setParameters") \/ JustDispatched("initialize")

DetectOSFalse ==
  /\ JustDispatched("detect")
  /\ \E p \in Calls("DetectOS") : log[p].r = "false"

Threw(op) == \E p \in Calls(op) : log[p].r = "throw"

\* the image buffer the job of the last step allocated
Buffer == log[CHOOSE p \in Calls("setImage") : log[p].r = "ok"].ptr

Sent == track[latestJob].sent

OneResponse(status, d) ==
  /\ Len(Sent) = 1
  /\ Sent[1].status = status
  /\ Sent[1].data = Data(d)

\* C11: a terminate job dispatched while no API instance exists sends one
\* resolve {terminated: true} and nothing else, and makes no engine call; one
\* dispatched while an instance exists makes one engine call, End on that
\* instance, and sends one response: resolve {terminated: true} when End
\* returns, a reject carrying the error when End throws.
C11_TerminateSafeWithoutInstance ==
  JustDispatched("terminate") =>
    IF api = 0
      THEN log = <<>> /\ OneResponse("resolve", "terminated")
      ELSE /\ Len(log) = 1
           /\ log[1].op = "End" /\ log[1].inst = api
           /\ IF log[1].r = "throw"
                THEN OneResponse("reject", "Error: End")
                ELSE ended[api] /\ OneResponse("resolve", "terminated")

\* C11 witness: terminate, dispatched before any initialize, has resolved
\* {terminated: true} without an engine call.
C11_Witness ==
  /\ JustDispatched("terminate")
  /\ api = 0 /\ ended = <<>>
  /\ log = <<>>
  /\ OneResponse("resolve", "terminated")

\* C11 as first stated: terminate without an instance resolves
\* {terminated: true} with no engine call, and terminate with an instance
\* calls End on it and resolves {terminated: true}.
C11_TerminateAlwaysResolves ==
  JustDispatched("terminate") =>
    /\ OneResponse("resolve", "terminated")
    /\ IF api = 0 THEN log = <<>> ELSE \E p \in Calls("End") : log[p].inst = api

\* the calls the last step made for a loadLanguage job, by their place
LangCalls == {p \in 1..Len(log) : track[log[p].job].action = "loadLanguage"}

\* the payload of the loadLanguage job that made call p
CfgOf(p) == track[log[p].job].packet.cfg

\* the language spec call p is about
LangOf(p) ==
  LET items == CfgOf(p).langs.items
  IN items[CHOOSE i \in 1..Len(items) : items[i].code = log[p].key[2]]

\* C12: a loadLanguage job with cache behavior 'none' never calls
\* adapter.readCache, for a URL and for a local language path alike, and
\* the bytes it writes for a plain-code language come from the network or
\* from the path.
C12_NoneNeverCallsReadCache ==
  \A p \in LangCalls :
    CfgOf(p).cacheMethod = "none" =>
      /\ log[p].op # "readCache"
      /\ (log[p].op = "writeFile" /\ ~LangOf(p).inline) =>
           log[p].val \in {"net", "path", "empty"}

AllInline(cfg) == \A i \in 1..Len(cfg.langs.items) : cfg.langs.items[i].inline

\* C13: a loadLanguage job whose language specs are all inline {code, data}
\* pairs makes no call of adapter.readCache, of adapter.writeCache or of
\* fetch, whatever the cache behavior, writes the inline data to the virtual
\* filesystem, and has resolved once it has finished.
C13_InlineNoCacheNoNetwork ==
  /\ \A p \in LangCalls :
       AllInline(CfgOf(p)) =>
         /\ log[p].op \notin {"readCache", "writeCache", "fetch", "arrayBuffer"}
         /\ log[p].op = "writeFile" => log[p].val = "inline"
  /\ \A k \in DOMAIN track :
       (track[k].action = "loadLanguage" /\ AllInline(track[k].packet.cfg)
          /\ track[k].done) => Resolved(k)

IsProgress(r, d, p) == r.status = "progress" /\ r.data.d = d /\ r.data.p = p

\* the responses of a loadLanguage job all of whose languages resolved
LoadedAll(s, langs) ==
  /\ Len(s) >= 3
  /\ Count(s, "reject") = 0
  /\ Count(s, "resolve") = 1
  /\ IsProgress(s[Len(s) - 1], "loaded language traineddata", "1")
  /\ s[Len(s)].status = "resolve"
  /\ s[Len(s)].data.d = "langs" /\ s[Len(s)].data.langs = langs

\* the responses of a loadLanguage job one of whose languages failed
LoadFailed(s) ==
  /\ Count(s, "reject") = 1
  /\ Count(s, "resolve") = 0
  /\ \A i \in 1..Len(s) : ~IsProgress(s[i], "loaded language traineddata", "1")

\* C14: the first response of a loadLanguage job is a progress with value 0;
\* once the job has finished it has sent either progress 1 followed by a
\* resolve with the langs value as received and no reject (every language
\* resolved), or one reject and neither progress 1 nor a resolve (a language
\* failed).
C14_ProgressThenResolveOrReject ==
  \A k \in DOMAIN track :
    track[k].action = "loadLanguage" =>
      /\ IsProgress(track[k].sent[1], "loading language traineddata", "0")
      /\ track[k].done =>
           \/ LoadedAll(track[k].sent, track[k].packet.cfg.langs)
           \/ LoadFailed(track[k].sent)

\* cache reading enabled: cacheMethod 'write' or undefined
CacheFirst(cfg) == cfg.cacheMethod \in {"write", "unset"}

\* the calls in lg that read a language from the network or from langPath
SourceCalls(lg) ==
  {p \in 1..Len(lg) :
     \/ lg[p].op = "fetch"
     \/ lg[p].op = "readCache" /\ lg[p].key[1] = "langPath"}

FromCache(r) == IsProgress(r, "loading language traineddata (from cache)", "0.5")

\* the loadAndGunzipFile call of job j for the language with this code was
\* waiting for its cache read
AwaitsCache(j, code) ==
  /\ j \in DOMAIN ll
  /\ \E i \in 1..Len(ll[j].co) :
       ll[j].cfg.langs.items[i].code = code /\ ll[j].co[i] = "cache"

\* C15: with cache reading enabled, a plain-code language is read from the
\* network or from langPath only in a step that resumes its cache read, with
\* the cache having failed or returned nothing: that step uses no cached
\* bytes and sends no reject.  A step that takes the bytes from the cache
\* reads no other source and writes the cached bytes.
C15_CacheBeforePathOrNetwork ==
  [][ /\ \A p \in SourceCalls(log') :
           LET j == log'[p].job
               code == log'[p].key[2]
           IN CacheFirst(track'[j].packet.cfg) =>
                /\ AwaitsCache(j, code)
                /\ \A q \in 1..Len(out') :
                     out'[q].status # "reject" /\ ~FromCache(out'[q])
                /\ \A q \in 1..Len(log') : log'[q].op # "writeFile"
      /\ (\E q \in 1..Len(out') : FromCache(out'[q])) =>
           /\ SourceCalls(log') = {}
           /\ \A q \in 1..Len(log') :
                log'[q].op = "writeFile" =>
                  /\ AwaitsCache(log'[q].job, log'[q].key[2])
                  /\ log'[q].val = "cache"
    ]_vars

\* C15 witness: the cache read of a plain-code language, cache reading
\* enabled, has returned nothing and the language is being fetched.
C15_Witness ==
  /\ last.op = "LangStep"
  /\ \E p \in SourceCalls(log) :
       /\ log[p].op = "fetch"
       /\ CacheFirst(CfgOf(p)) /\ ~LangOf(p).inline
  /\ out = <<>>

\* C16: a setParameters job dispatched while no API instance exists sends
\* one reject and no resolve, whatever its params mapping (also an empty one
\* and one holding only keys with the reserved prefix), and leaves the
\* retained parameter set as it was.
C16_SetParametersNeedsInstance ==
  (JustDispatched("setParameters") /\ api = 0) =>
    /\ Count(Sent, "reject") = 1
    /\ Count(Sent, "resolve") = 0
    /\ Retained = last.before

\* C17: every image buffer setImage allocated for a recognize, threshold or
\* detect job is freed by the time that job has finished, whether the job
\* resolved or an engine call threw after the allocation; the three handlers
\* run to completion within their dispatch, so between dispatches no
\* allocated buffer is unfreed.
C17_EveryBufferFreed ==
  \A ptr \in 1..Len(mem) : mem[ptr].freed

\* the "recognizing text" envelopes of the last step: the responses of the
\* TesseractProgress callback
EngineProgress == {i \in 1..Len(out) : out[i].data.d = "recognizing text"}

\* C18: latestJob is the res of the most recently dispatched packet, and a
\* response of the engine's TesseractProgress callback carries the jobId and
\* the action of that packet, not those of the load packet whose handler
\* registered the callback (whose jobId it carries in its data only).
C18_ProgressThroughLatestJob ==
  /\ latestJob = nJobs
  /\ \A i \in EngineProgress :
       /\ out[i].status = "progress"
       /\ out[i].jobId = latestJob
       /\ out[i].action = track[latestJob].packet.action
       /\ out[i].data.job # out[i].jobId
       /\ out[i].data.job = cores[TessModule].job

C18_Witness ==
  /\ last.op = "dispatch"
  /\ \E i \in EngineProgress :
       /\ out[i].jobId = latestJob
       /\ out[i].action = "recognize"
       /\ out[i].data.job < latestJob
       /\ latestJob - out[i].data.job > 1

\* C19: no handler invokes an engine primitive on an API instance on which
\* End has already been called: End is not called a second time on it, and
\* setParameters, recognize, threshold, getPDF and detect dispatched after
\* terminate or after a failed detect do not operate on it.
C19_NoCallOnEndedInstance ==
  \A p \in 1..Len(log) : log[p].was # "ended"

\* C20: between handler runs, if the current API instance is live then for
\* every key of the retained parameter set without the reserved prefix the
\* last value passed to SetVariable on that instance is the retained value.
C20_RetainedAgreesWithEngine ==
  (api # 0 /\ ~ended[api]) =>
    \A i \in 1..Len(Retained) :
      ~startsWith(Retained[i][1], RESERVED) =>
        /\ Has(setVars, Retained[i][1])
        /\ Get(setVars, Retained[i][1]) = Retained[i][2]

=============================================================================
